---- MODULE Spec2Model ----
(***************************************************************************)
(* Model of server.py: one capture thread per camera (capture_camera),     *)
(* the per-camera capacity-1 frame queue, the MJPEG generators             *)
(* (generate_frames) and the Alexa webhook that flips camera_states.       *)
(***************************************************************************)
EXTENDS Integers, Sequences, FiniteSets, TLC

\* ---------------------------------------------------------------- bounds
\* Frames of one camera are numbered 1, 2, ... in the order they are read;
\* every frame from the MaxFrames-th on carries the number MaxFrames, so
\* the state space is finite while the capture loops can run forever.
MaxFrames == 2
\* Number of viewer sessions (HTTP stream connections) that may be opened.
NumViewers == 2

\* ------------------------------------------------------ program constants
\* keys of CAMERA_URLS
CAMERA_URLS == {1, 2, 3}
\* list(CAMERA_URLS.keys()): a dict keeps insertion order
CameraKeys == <<1, 2, 3>>
\* queue.Queue(maxsize=1)
QueueMaxsize == 1

\* The cameras the environment of Spec exercises: voice commands, viewer
\* sessions and source outages address these cameras.  The capture threads
\* of all cameras of CAMERA_URLS run.
Exercised == {1}

Viewers == 1..NumViewers

VARIABLES
    camera_states,  \* camera_states[c]: desired state of camera c
    frame_queues,   \* frame_queues[c]: content of the camera's Queue
    cap,            \* capture_camera's local cap: "None", "open", "closed"
    frame,          \* capture_camera's local encoded buffer (0: none)
    cpc,            \* position of each capture thread
    source,         \* environment: whether the RTSP source delivers frames
    lastPublished,  \* number of the last frame handed to put()
    vcam,           \* camera of each viewer session (0: not connected)
    vpc,            \* position of each generate_frames generator
    vframe,         \* generate_frames's local frame: the one being yielded
                    \* at "yield", the last one yielded elsewhere (0: none)
    request,        \* the last request alexa_endpoint handled
    response        \* the response it returned

captureVars == <<frame_queues, cap, frame, cpc, lastPublished>>
viewerVars == <<vcam, vpc, vframe>>
gatewayVars == <<request, response>>
vars == <<camera_states, frame_queues, cap, frame, cpc, source, lastPublished,
          vcam, vpc, vframe, request, response>>

Min(a, b) == IF a < b THEN a ELSE b

\* ------------------------------------------------------------ queue.Queue
\* a get_nowait that was left out: the old frame stays in the queue
KeepQueue(q) == q

\* Queue.get_nowait() inside try/except queue.Empty: drops the head if any
QueueGetNowait(q) == IF q = <<>> THEN q ELSE Tail(q)
\* Queue.put(item) blocks while the queue is full
QueueCanPut(q) == QueueMaxsize = 0 \/ Len(q) < QueueMaxsize
QueuePut(q, item) == Append(q, item)

\* ---------------------------------------------------------- capture_camera
\* number of the next frame cap.read() delivers
NextFrame(c) == Min(lastPublished[c] + 1, MaxFrames)

\* an exception that is not caught ends the thread
ExceptionEscapes == "dead"

\* where the thread goes after "except Exception": log, sleep(2), loop again
OnException == "check"

\* line 42: if not camera_states[camera_id]
CheckState(c) ==
    /\ cpc[c] = "check"
    /\ cpc' = [cpc EXCEPT ![c] = IF camera_states[c] THEN "connect" ELSE "idle"]
    /\ UNCHANGED <<camera_states, frame_queues, cap, frame, source, lastPublished,
                   viewerVars, gatewayVars>>

\* a loop that, having found its camera disabled, also switches off the
\* next camera of the registry
IdleSwitchesNeighbour(c) ==
    /\ cpc[c] = "idle"
    /\ cpc' = [cpc EXCEPT ![c] = "check"]
    /\ camera_states' = [camera_states EXCEPT ![(c % Cardinality(CAMERA_URLS)) + 1] = FALSE]
    /\ UNCHANGED <<frame_queues, cap, frame, source, lastPublished,
                   viewerVars, gatewayVars>>

\* lines 43-44: time.sleep(1); continue
Idle(c) ==
    /\ cpc[c] = "idle"
    /\ cpc' = [cpc EXCEPT ![c] = "check"]
    /\ UNCHANGED <<camera_states, frame_queues, cap, frame, source, lastPublished,
                   viewerVars, gatewayVars>>

\* a loop that opens a new VideoCapture in every iteration, whatever it holds
ConnectAlways(c) ==
    /\ cpc[c] = "connect"
    /\ cap' = [cap EXCEPT ![c] = IF source[c] = "up" THEN "open" ELSE "closed"]
    /\ cpc' = [cpc EXCEPT ![c] = "read"]
    /\ UNCHANGED <<camera_states, frame_queues, frame, source, lastPublished,
                   viewerVars, gatewayVars>>

\* lines 47-49: open a VideoCapture unless one is held and isOpened()
Connect(c) ==
    /\ cpc[c] = "connect"
    /\ cap' = [cap EXCEPT ![c] =
                 IF cap[c] = "None" \/ cap[c] # "open"
                 THEN (IF source[c] = "up" THEN "open" ELSE "closed")
                 ELSE cap[c]]
    /\ cpc' = [cpc EXCEPT ![c] = "read"]
    /\ UNCHANGED <<camera_states, frame_queues, frame, source, lastPublished,
                   viewerVars, gatewayVars>>

\* lines 52-67, ret True and imencode succeeds: buffer holds the new frame
ReadOk(c) ==
    /\ cpc[c] = "read"
    /\ cap[c] = "open"
    /\ source[c] = "up"
    /\ frame' = [frame EXCEPT ![c] = NextFrame(c)]
    /\ cpc' = [cpc EXCEPT ![c] = "clear"]
    /\ UNCHANGED <<camera_states, frame_queues, cap, source, lastPublished,
                   viewerVars, gatewayVars>>

\* a failed read that only sleeps and retries on the connection it holds
ReadFailKeepsConnection(c) ==
    /\ cpc[c] = "read"
    /\ cap[c] # "open" \/ source[c] = "down"
    /\ cpc' = [cpc EXCEPT ![c] = "check"]
    /\ UNCHANGED <<camera_states, frame_queues, cap, frame, source, lastPublished,
                   viewerVars, gatewayVars>>

\* lines 54-59, ret False: release, cap = None, sleep(2), continue
ReadFail(c) ==
    /\ cpc[c] = "read"
    /\ cap[c] # "open" \/ source[c] = "down"
    /\ cap' = [cap EXCEPT ![c] = "None"]
    /\ cpc' = [cpc EXCEPT ![c] = "check"]
    /\ UNCHANGED <<camera_states, frame_queues, frame, source, lastPublished,
                   viewerVars, gatewayVars>>

\* lines 62-67 on a frame that cannot be used: cv2.resize raises (caught at
\* line 77) or imencode returns False (continue); either way the frame is
\* dropped and the connection kept
ReadBad(c) ==
    /\ cpc[c] = "read"
    /\ cap[c] = "open"
    /\ source[c] = "down"
    /\ cpc' = [cpc EXCEPT ![c] = OnException]
    /\ UNCHANGED <<camera_states, frame_queues, cap, frame, source, lastPublished,
                   viewerVars, gatewayVars>>

\* lines 70-73: get_nowait, queue.Empty ignored
Clear(c) ==
    /\ cpc[c] = "clear"
    /\ frame_queues' = [frame_queues EXCEPT ![c] = QueueGetNowait(@)]
    /\ cpc' = [cpc EXCEPT ![c] = "put"]
    /\ UNCHANGED <<camera_states, cap, frame, source, lastPublished,
                   viewerVars, gatewayVars>>

\* line 75: put(buffer.tobytes()), blocking while the queue is full
Put(c) ==
    /\ cpc[c] = "put"
    /\ QueueCanPut(frame_queues[c])
    /\ frame_queues' = [frame_queues EXCEPT ![c] = QueuePut(@, frame[c])]
    /\ lastPublished' = [lastPublished EXCEPT ![c] = frame[c]]
    /\ cpc' = [cpc EXCEPT ![c] = "check"]
    /\ UNCHANGED <<camera_states, cap, frame, source, viewerVars, gatewayVars>>

\* the camera or the network comes up or goes down
SourceChange(c) ==
    /\ source' = [source EXCEPT ![c] = IF @ = "up" THEN "down" ELSE "up"]
    /\ UNCHANGED <<camera_states, captureVars, viewerVars, gatewayVars>>

\* ---------------------------------------------------------- generate_frames
\* GET /camera/<id>/stream: video_feed starts a generator for the camera
VideoFeed(v, c) ==
    /\ vcam[v] = 0
    /\ \A w \in Viewers : w < v => vcam[w] # 0
    /\ vcam' = [vcam EXCEPT ![v] = c]
    /\ vpc' = [vpc EXCEPT ![v] = "check"]
    /\ UNCHANGED <<camera_states, captureVars, source, vframe, gatewayVars>>

\* a generator that ends the stream when it finds the camera disabled
ViewerCheckCloses(v) ==
    /\ vcam[v] # 0
    /\ vpc[v] = "check"
    /\ vpc' = [vpc EXCEPT ![v] = IF camera_states[vcam[v]] THEN "get" ELSE "closed"]
    /\ UNCHANGED <<camera_states, captureVars, source, vcam, vframe, gatewayVars>>

\* lines 86, 90-91: if camera_states[camera_id] go on to get(); else
\* time.sleep(1) and test again (the generator stays where it is)
ViewerCheck(v) ==
    /\ vcam[v] # 0
    /\ vpc[v] = "check"
    /\ vpc' = [vpc EXCEPT ![v] = IF camera_states[vcam[v]] THEN "get" ELSE "check"]
    /\ UNCHANGED <<camera_states, captureVars, source, vcam, vframe, gatewayVars>>

\* line 87: get(timeout=2) returns the head and removes it
ViewerGet(v) ==
    /\ vpc[v] = "get"
    /\ frame_queues[vcam[v]] # <<>>
    /\ vframe' = [vframe EXCEPT ![v] = Head(frame_queues[vcam[v]])]
    /\ frame_queues' = [frame_queues EXCEPT ![vcam[v]] = Tail(@)]
    /\ vpc' = [vpc EXCEPT ![v] = "yield"]
    /\ UNCHANGED <<camera_states, cap, frame, cpc, source, lastPublished,
                   vcam, gatewayVars>>

\* The capture thread of c is connected to a source that delivers frames
\* and the camera is enabled: frames then arrive at the camera's frame
\* rate, well within the 2 s a generator waits in get(timeout=2).
Streaming(c) == camera_states[c] /\ source[c] = "up" /\ cap[c] = "open"

\* a get whose timeout is not caught: queue.Empty ends the generator
ViewerTimeoutRaises(v) ==
    /\ vpc[v] = "get"
    /\ frame_queues[vcam[v]] = <<>>
    /\ ~Streaming(vcam[v])
    /\ vpc' = [vpc EXCEPT ![v] = "closed"]
    /\ UNCHANGED <<camera_states, captureVars, source, vcam, vframe, gatewayVars>>

\* lines 87, 92-93: get times out on a queue that stayed empty for 2 s,
\* queue.Empty, continue
ViewerTimeout(v) ==
    /\ vpc[v] = "get"
    /\ frame_queues[vcam[v]] = <<>>
    /\ ~Streaming(vcam[v])
    /\ vpc' = [vpc EXCEPT ![v] = "check"]
    /\ UNCHANGED <<camera_states, captureVars, source, vcam, vframe, gatewayVars>>

\* a generator that puts the frame back for the other viewers after yielding
ViewerYieldRequeue(v) ==
    /\ vpc[v] = "yield"
    /\ frame_queues' = [frame_queues EXCEPT ![vcam[v]] =
                           IF QueueCanPut(@) THEN QueuePut(@, vframe[v]) ELSE @]
    /\ vpc' = [vpc EXCEPT ![v] = "check"]
    /\ UNCHANGED <<camera_states, cap, frame, cpc, lastPublished, source, vcam,
                   vframe, gatewayVars>>

\* lines 88-89: yield the multipart chunk of the frame
ViewerYield(v) ==
    /\ vpc[v] = "yield"
    /\ vpc' = [vpc EXCEPT ![v] = "check"]
    /\ UNCHANGED <<camera_states, captureVars, source, vcam, vframe, gatewayVars>>

\* ----------------------------------------------------------- alexa_endpoint
\* A request envelope: request.type, request.intent.name and the 'value' of
\* the four slots.  "" is a slot that is absent or whose value is empty (both
\* are falsy in "if slots.get(k, {}).get('value')"); Missing is a key that
\* is not in the envelope.
Missing == "<missing>"
\* the type of a body that is no JSON object: request.json raises, or the
\* payload has no .get (lines 123-127)
NotAnObject == "<no json object>"
NoRequest == [type |-> Missing, name |-> Missing,
              AllCameras |-> "", CameraNumber |-> "", FirstCamera |-> "",
              SecondCamera |-> ""]
Envelope(t, n) == [NoRequest EXCEPT !.type = t, !.name = n]
Intent(n, a, c, f, s) ==
    [type |-> "IntentRequest", name |-> n,
     AllCameras |-> a, CameraNumber |-> c, FirstCamera |-> f, SecondCamera |-> s]

\* jsonify(...) of a speech response: HTTP 200
Speech(text, endSession) ==
    [status |-> 200, kind |-> "speech", text |-> text, shouldEndSession |-> endSession]
\* jsonify({"version": "1.0", "response": {}})
EmptyResponse ==
    [status |-> 200, kind |-> "empty", text |-> "", shouldEndSession |-> FALSE]
NoResponse ==
    [status |-> 0, kind |-> "none", text |-> "", shouldEndSession |-> FALSE]

WelcomeText ==
    "Welcome to Surveillance Camera Control. You can say open camera 1, or close camera 2."
UnhandledText == "I'm sorry, I didn't understand that command."
ErrorText == "There was an error processing your request."
ClarifyText == "Please specify a valid camera number."
OpenAllText == "Opening all cameras"

\* int(s) of a slot value: defined on decimal digits, ValueError otherwise
IntTable ==
    [s \in {"0", "1", "2", "3", "4", "5", "6", "7", "8", "9"} |->
        CASE s = "0" -> 0 [] s = "1" -> 1 [] s = "2" -> 2 [] s = "3" -> 3
          [] s = "4" -> 4 [] s = "5" -> 5 [] s = "6" -> 6 [] s = "7" -> 7
          [] s = "8" -> 8 [] s = "9" -> 9]
IntRaises(s) == s \notin DOMAIN IntTable
ParseInt(s) == IntTable[s]

SlotOrder == <<"CameraNumber", "FirstCamera", "SecondCamera">>

\* lines 190-205 / 240-255: some int(...) raises ValueError
SlotsRaise(intent) ==
    \E i \in 1..Len(SlotOrder) :
        intent[SlotOrder[i]] # "" /\ IntRaises(intent[SlotOrder[i]])

RECURSIVE AppendSlots(_, _, _)
AppendSlots(intent, cams, i) ==
    IF i > Len(SlotOrder) THEN cams
    ELSE AppendSlots(intent,
                     IF intent[SlotOrder[i]] # ""
                     THEN Append(cams, ParseInt(intent[SlotOrder[i]]))
                     ELSE cams,
                     i + 1)

\* lines 191-205 / 241-255: cameras_to_open, cameras_to_close
CamerasRequested(intent) ==
    AppendSlots(intent, IF intent.AllCameras # "" THEN CameraKeys ELSE <<>>, 1)

\* a validation that lets every number through
AnyCamera(cam) == TRUE

InRegistry(cam) == cam \in CAMERA_URLS

\* lines 208 / 258: [cam for cam in cameras if cam in CAMERA_URLS]
ValidCameras(intent) == SelectSeq(CamerasRequested(intent), InRegistry)

\* " and ".join(map(str, valid_cameras))
RECURSIVE JoinAnd(_)
JoinAnd(cams) ==
    IF cams = <<>> THEN ""
    ELSE IF Len(cams) = 1 THEN ToString(cams[1])
    ELSE ToString(cams[1]) \o " and " \o JoinAnd(Tail(cams))

\* lines 223-224 / 273-274: for cam in valid_cameras: camera_states[cam] = on
SetStates(states, cams, on) ==
    [c \in DOMAIN states \cup {cams[i] : i \in 1..Len(cams)} |->
        IF \E i \in 1..Len(cams) : cams[i] = c THEN on ELSE states[c]]

\* a handler that takes an empty selection for "all cameras"
EmptyMeansAll(intent, states, on, verb) ==
    LET cams == IF ValidCameras(intent) = <<>> THEN CameraKeys ELSE ValidCameras(intent)
    IN  [states |-> SetStates(states, cams, on),
         response |-> Speech(verb \o " camera " \o JoinAnd(cams), TRUE)]

\* process_open_camera_intent (on = TRUE, verb = "Opening") and
\* process_close_camera_intent (on = FALSE, verb = "Closing"), after the
\* slots have been parsed
ProcessCameraIntent(intent, states, on, verb) ==
    IF ValidCameras(intent) = <<>>
    THEN [states |-> states, response |-> Speech(ClarifyText, FALSE)]
    ELSE [states |-> SetStates(states, ValidCameras(intent), on),
          response |-> Speech(verb \o " camera " \o JoinAnd(ValidCameras(intent)), TRUE)]

\* open_all_cameras
OpenAllCameras(states) ==
    [states |-> [c \in DOMAIN states \cup CAMERA_URLS |->
                    IF c \in CAMERA_URLS THEN TRUE ELSE states[c]],
     response |-> Speech(OpenAllText, TRUE)]

\* a fall-through that answers HTTP 400 with an error body
BadRequest(states) ==
    [states |-> states,
     response |-> [status |-> 400, kind |-> "error", text |-> "Invalid request",
                   shouldEndSession |-> TRUE]]

\* lines 164-173: the fall-through of the dispatch
Unhandled(states) == [states |-> states, response |-> Speech(UnhandledText, TRUE)]

\* a handler without the try/except: the exception reaches Flask, which
\* answers HTTP 500
ExceptionPropagates(states) ==
    [states |-> states,
     response |-> [status |-> 500, kind |-> "error", text |-> "Internal Server Error",
                   shouldEndSession |-> TRUE]]

\* lines 175-186: except Exception
Apology(states) == [states |-> states, response |-> Speech(ErrorText, TRUE)]

\* an intent branch whose handlers switch each camera as soon as its slot is
\* parsed, so that a later slot that fails to parse leaves the earlier
\* cameras switched
SwitchesWhileParsing(req, states) ==
    IF req.name = Missing THEN Apology(states)
    ELSE IF req.name \in {"OpenCameraIntent", "CloseCameraIntent"}
    THEN (IF SlotsRaise(req)
          THEN LET bad(i) == req[SlotOrder[i]] # "" /\ IntRaises(req[SlotOrder[i]])
                   first == CHOOSE i \in 1..Len(SlotOrder) :
                                bad(i) /\ \A j \in 1..(i - 1) : ~bad(j)
                   done == (IF req.AllCameras # "" THEN CAMERA_URLS ELSE {})
                             \cup {ParseInt(req[SlotOrder[k]]) :
                                     k \in {j \in 1..(first - 1) : req[SlotOrder[j]] # ""}}
               IN  [states |-> [c \in DOMAIN states |->
                                   IF c \in done THEN req.name = "OpenCameraIntent"
                                   ELSE states[c]],
                    response |-> Speech(ErrorText, TRUE)]
          ELSE ProcessCameraIntent(req, states, req.name = "OpenCameraIntent",
                                   IF req.name = "OpenCameraIntent"
                                   THEN "Opening" ELSE "Closing"))
    ELSE IF req.name = "ShowAllCamerasIntent" THEN OpenAllCameras(states)
    ELSE Unhandled(states)

\* lines 143-157: the IntentRequest branch
DispatchIntent(req, states) ==
    IF req.name = Missing THEN Apology(states)
    ELSE IF req.name = "OpenCameraIntent"
    THEN (IF SlotsRaise(req) THEN Apology(states)
          ELSE ProcessCameraIntent(req, states, TRUE, "Opening"))
    ELSE IF req.name = "CloseCameraIntent"
    THEN (IF SlotsRaise(req) THEN Apology(states)
          ELSE ProcessCameraIntent(req, states, FALSE, "Closing"))
    ELSE IF req.name = "ShowAllCamerasIntent" THEN OpenAllCameras(states)
    ELSE Unhandled(states)

\* lines 120-186: the outcome of alexa_endpoint on a request
Dispatch(req, states) ==
    IF req.type = NotAnObject THEN Apology(states)
    ELSE IF req.type = "LaunchRequest"
    THEN [states |-> states, response |-> Speech(WelcomeText, FALSE)]
    ELSE IF req.type = "IntentRequest" THEN DispatchIntent(req, states)
    ELSE IF req.type = "SessionEndedRequest"
    THEN [states |-> states, response |-> EmptyResponse]
    ELSE Unhandled(states)

\* POST /api/alexa
alexa_endpoint(req) ==
    /\ request' = req
    /\ response' = Dispatch(req, camera_states).response
    /\ camera_states' = Dispatch(req, camera_states).states
    /\ UNCHANGED <<captureVars, source, viewerVars>>

\* --------------------------------------------------------------- requests
AllValues == {"", "all"}
NumberValues == {"", "1", "3", "4", "x"}
FirstValues == {"", "1", "4"}
SecondValues == {"", "2", "x"}
IntentNames == {"OpenCameraIntent", "CloseCameraIntent"}

CameraIntents ==
    {Intent(n, a, c, f, s) :
        n \in IntentNames, a \in AllValues, c \in NumberValues,
        f \in FirstValues, s \in SecondValues}

OtherRequests ==
    {Envelope("LaunchRequest", Missing), Envelope("SessionEndedRequest", Missing),
     Envelope("System.ExceptionEncountered", Missing), Envelope(Missing, Missing),
     Envelope(NotAnObject, Missing),
     Envelope("IntentRequest", Missing), Envelope("IntentRequest", "ShowAllCamerasIntent"),
     Envelope("IntentRequest", "AMAZON.HelpIntent")}

Requests == CameraIntents \cup OtherRequests

\* the commands that toggle cameras while the capture threads run
StreamRequests ==
    {Intent(n, "", ToString(c), "", "") : n \in IntentNames, c \in Exercised}

\* ------------------------------------------------------------ specifications
Init ==
    /\ camera_states = [c \in CAMERA_URLS |-> FALSE]
    /\ frame_queues = [c \in CAMERA_URLS |-> <<>>]
    /\ cap = [c \in CAMERA_URLS |-> "None"]
    /\ frame = [c \in CAMERA_URLS |-> 0]
    /\ cpc = [c \in CAMERA_URLS |-> "check"]
    /\ source = [c \in CAMERA_URLS |-> "up"]
    /\ lastPublished = [c \in CAMERA_URLS |-> 0]
    /\ vcam = [v \in Viewers |-> 0]
    /\ vpc = [v \in Viewers |-> "none"]
    /\ vframe = [v \in Viewers |-> 0]
    /\ request = NoRequest
    /\ response = NoResponse

Capture(c) ==
    \/ CheckState(c)
    \/ Idle(c)
    \/ Connect(c)
    \/ ReadOk(c)
    \/ ReadFail(c)
    \/ ReadBad(c)
    \/ Clear(c)
    \/ Put(c)

Viewer(v) ==
    \/ \E c \in Exercised : VideoFeed(v, c)
    \/ ViewerCheck(v)
    \/ ViewerGet(v)
    \/ ViewerTimeout(v)
    \/ ViewerYield(v)

Gateway == \E req \in StreamRequests : alexa_endpoint(req)

\* the environment: source outages, stream requests and voice commands
Environment ==
    \/ \E c \in Exercised : SourceChange(c)
    \/ \E v \in Viewers : Viewer(v)
    \/ Gateway

Next ==
    \/ \E c \in CAMERA_URLS : Capture(c)
    \/ Environment

Spec == Init /\ [][Next]_vars

\* the webhook alone, on every request of Requests
GatewayNext == \E req \in Requests : alexa_endpoint(req)

GatewaySpec == Init /\ [][GatewayNext]_vars

\* The behaviours on which progress is checked: those of Spec in which
\* only the capture threads of the exercised cameras take steps.  The
\* cameras outside Exercised are never enabled, and a step of their threads
\* changes nothing but their own position between "check" and "idle".
LiveNext ==
    \/ \E c \in Exercised : Capture(c)
    \/ Environment

\* capture threads are scheduled fairly; a generator is scheduled fairly and
\* its blocking get is served when frames keep arriving
Fairness ==
    /\ \A c \in Exercised : WF_vars(Capture(c))
    /\ \A v \in Viewers : WF_vars(Viewer(v)) /\ SF_vars(ViewerGet(v))

LiveSpec == Init /\ [][LiveNext]_vars /\ Fairness

\* ------------------------------------------------------------------ claims

\* C1: the publish step of a capture loop never blocks: when the thread is
\* at put() the queue is empty, and the step that leaves put() leaves the
\* queue holding exactly the frame being published.
C1_PublishNeverBlocks ==
    /\ [](\A c \in CAMERA_URLS :
            cpc[c] = "put" => frame_queues[c] = <<>> /\ QueueCanPut(frame_queues[c]))
    /\ [][\A c \in CAMERA_URLS :
            cpc[c] = "put" /\ cpc'[c] # "put" => frame_queues'[c] = <<frame[c]>>]_vars

\* a thread at put() whose previous frame was published and taken by no
\* viewer (so get_nowait evicted it) while a viewer is waiting in get()
C1_Witness ==
    \E c \in CAMERA_URLS :
        /\ cpc[c] = "put"
        /\ lastPublished[c] >= 1
        /\ \A v \in Viewers : vframe[v] = 0
        /\ \E v \in Viewers : vcam[v] = c /\ vpc[v] = "get"

\* C2: a queue holds zero or one frame, the frame it holds is the last one
\* published for the camera, and so is every frame a viewer's get returns.
C2_LatestWins ==
    /\ [](\A c \in CAMERA_URLS :
            /\ Len(frame_queues[c]) <= 1
            /\ frame_queues[c] # <<>> => frame_queues[c][1] = lastPublished[c])
    /\ [][\A v \in Viewers :
            vpc[v] = "get" /\ vpc'[v] = "yield" =>
                vframe'[v] = lastPublished[vcam[v]]]_vars

\* a viewer has taken frame 1 and the queue already holds a later frame
C2_Witness ==
    \E v \in Viewers :
        /\ vpc[v] = "yield"
        /\ vframe[v] = 1
        /\ frame_queues[vcam[v]] = <<2>>

\* C3: a session never emits a frame older than one it has emitted before.
\* (vframe[v] is the last frame the session emitted until its next get
\* returns, and then the frame its next yield emits.)
C3_EmitsInOrder ==
    [][\A v \in Viewers : vframe'[v] >= vframe[v]]_vars

\* a session that has emitted frame 1 waits in get() again while the queue
\* holds a later frame, and another session of the camera holds a frame
C3_Witness ==
    \E v \in Viewers :
        /\ vpc[v] = "get"
        /\ vframe[v] = 1
        /\ frame_queues[vcam[v]] = <<2>>
        /\ \E w \in Viewers : w # v /\ vcam[w] = vcam[v] /\ vpc[w] = "yield"

\* C4: a capture loop that has seen its camera disabled and idles holds no
\* open connection.
C4_IdleHoldsNoConnection ==
    \A c \in CAMERA_URLS : cpc[c] = "idle" => cap[c] # "open"

\* C5: a capture thread never ends, whatever failed before, and whenever
\* its camera stays enabled and its source stays up from some point on, it
\* keeps publishing frames.
C5_LoopSurvivesFailures ==
    /\ [](\A c \in CAMERA_URLS :
            cpc[c] \in {"check", "idle", "connect", "read", "clear", "put"})
    /\ \A c \in Exercised :
            <>[](camera_states[c] /\ source[c] = "up") => []<><<Put(c)>>_vars

\* a thread that published, then lost its connection to a failed read, is
\* back at the top of the loop with the camera enabled and the source up
C5_Witness ==
    \E c \in CAMERA_URLS :
        /\ cpc[c] = "check"
        /\ cap[c] = "None"
        /\ lastPublished[c] >= 1
        /\ camera_states[c]
        /\ source[c] = "up"

\* C6: a session never ends by itself, and whenever its camera stays
\* enabled and the source stays up from some point on (for instance after
\* a close and a reopen), the same session keeps emitting frames.
C6_SessionSurvivesToggle ==
    /\ [](\A v \in Viewers :
            vcam[v] # 0 => vpc[v] \in {"check", "get", "yield"})
    /\ \A v \in Viewers :
            <>[](vcam[v] # 0 /\ camera_states[IF vcam[v] = 0 THEN 1 ELSE vcam[v]]
                              /\ source[IF vcam[v] = 0 THEN 1 ELSE vcam[v]] = "up")
                => []<><<ViewerYield(v)>>_vars

\* a session that emitted a frame is at its flag test, the capture thread
\* is in the sleep it entered on finding the camera closed, and the
\* camera has been opened again
C6_Witness ==
    \E v \in Viewers :
        /\ vcam[v] # 0
        /\ vpc[v] = "check"
        /\ vframe[v] >= 1
        /\ cpc[vcam[v]] = "idle"
        /\ camera_states[vcam[v]]
        /\ request.name = "OpenCameraIntent"

\* ------------------------------------------------- the webhook's claims
SlotNames == {"CameraNumber", "FirstCamera", "SecondCamera"}
KnownIntents == {"OpenCameraIntent", "CloseCameraIntent", "ShowAllCamerasIntent"}

IsCameraIntent(r) ==
    r.type = "IntentRequest" /\ r.name \in {"OpenCameraIntent", "CloseCameraIntent"}

\* every slot that has a value has a numeric one
NumericSlots(r) == \A k \in SlotNames : r[k] = "" \/ r[k] \in DOMAIN IntTable

\* the identifiers a request asks for, and those of them in the registry
RequestedIds(r) ==
    (IF r.AllCameras # "" THEN CAMERA_URLS ELSE {})
        \cup {IntTable[r[k]] : k \in {j \in SlotNames : r[j] # ""}}
EffectiveSet(r) == RequestedIds(r) \cap CAMERA_URLS

\* C7: an open or close intent writes the desired state of exactly the
\* requested identifiers that are in the registry; an identifier outside
\* the registry creates or changes no entry.
C7_EffectiveSetIsRequestedInRegistry ==
    [][IsCameraIntent(request') /\ NumericSlots(request') =>
          /\ DOMAIN camera_states' = CAMERA_URLS
          /\ \A c \in CAMERA_URLS :
                camera_states'[c] =
                    IF c \in EffectiveSet(request')
                    THEN (request'.name = "OpenCameraIntent")
                    ELSE camera_states[c]]_vars

\* a close of cameras 4 and 1 was handled: camera 1 is off, another is on
C7_Witness ==
    /\ request.name = "CloseCameraIntent"
    /\ request.CameraNumber = "4"
    /\ request.FirstCamera = "1"
    /\ request.AllCameras = ""
    /\ response.text = "Closing camera 1"
    /\ ~camera_states[1]
    /\ camera_states[3]

\* C8: an open or close intent whose effective set is empty returns the
\* clarification prompt with shouldEndSession = false and changes no
\* desired state.
C8_EmptySelectionAsksAgain ==
    [][IsCameraIntent(request') /\ NumericSlots(request')
            /\ EffectiveSet(request') = {} =>
          /\ response'.status = 200
          /\ response'.text = "Please specify a valid camera number."
          /\ response'.shouldEndSession = FALSE
          /\ camera_states' = camera_states]_vars

\* a request that names only camera 4 got the prompt while a camera is on
C8_Witness ==
    /\ IsCameraIntent(request)
    /\ request.CameraNumber = "4"
    /\ request.AllCameras = "" /\ request.FirstCamera = "" /\ request.SecondCamera = ""
    /\ response.text = "Please specify a valid camera number."
    /\ \E c \in CAMERA_URLS : camera_states[c]

\* the orders in which the cameras of a set can be named, each once
Orderings(S) ==
    {p \in [1..Cardinality(S) -> S] : \A c \in S : \E i \in 1..Cardinality(S) : p[i] = c}

\* C9: an open (close) intent with a non-empty valid set S switches on
\* (off) exactly the cameras of S, leaves the others as they were, and
\* answers "Opening (Closing) camera " followed by the cameras of S joined
\* with " and ".
C9_SetsExactlyAndNamesSelection ==
    [][IsCameraIntent(request') /\ NumericSlots(request')
            /\ EffectiveSet(request') # {} =>
          /\ \A c \in CAMERA_URLS :
                camera_states'[c] =
                    IF c \in EffectiveSet(request')
                    THEN (request'.name = "OpenCameraIntent")
                    ELSE camera_states[c]
          /\ \E p \in Orderings(EffectiveSet(request')) :
                response'.text =
                    (IF request'.name = "OpenCameraIntent" THEN "Opening" ELSE "Closing")
                        \o " camera " \o JoinAnd(p)]_vars

\* an envelope that is none of LaunchRequest, SessionEndedRequest and an
\* IntentRequest with a known intent name
OtherEnvelope(r) ==
    ~ \/ r.type = "LaunchRequest"
      \/ r.type = "SessionEndedRequest"
      \/ r.type = "IntentRequest" /\ r.name \in KnownIntents

\* C10 as claimed: any other envelope is answered with HTTP 400 and
\* changes no desired state.
C10_OtherEnvelopeIs400 ==
    [][OtherEnvelope(request') =>
          response'.status = 400 /\ camera_states' = camera_states]_vars

\* C10 as amended: any other envelope is answered with HTTP 200 and a
\* speech that ends the session, the "didn't understand" text for an
\* unknown request type or intent name and the error apology when the
\* envelope cannot be read, and changes no desired state.
C10_OtherEnvelopeIsSpeech ==
    [][OtherEnvelope(request') =>
          /\ response'.status = 200
          /\ response'.kind = "speech"
          /\ response'.shouldEndSession = TRUE
          /\ response'.text =
                IF \/ request'.type = NotAnObject
                   \/ request'.type = "IntentRequest" /\ request'.name = Missing
                THEN "There was an error processing your request."
                ELSE "I'm sorry, I didn't understand that command."
          /\ camera_states' = camera_states]_vars

\* an unknown intent got the "didn't understand" speech while a camera is on
C10_Witness ==
    /\ request.type = "IntentRequest"
    /\ request.name = "AMAZON.HelpIntent"
    /\ response.text = "I'm sorry, I didn't understand that command."
    /\ response.status = 200
    /\ \E c \in CAMERA_URLS : camera_states[c]

\* ------------------------------------------------ the streaming claims
\* C12: a session never ends and never fails; while its camera is disabled
\* a session at its flag test stays there and takes nothing; a session
\* whose camera is disabled for as long as it lasts never emits a chunk,
\* and neither does a session of a camera whose source fails on every
\* read the capture loop ever issues.
C12_IdleViewerStaysIdle ==
    /\ [](\A v \in Viewers :
            IF vcam[v] = 0 THEN vpc[v] = "none" ELSE vpc[v] \in {"check", "get", "yield"})
    /\ [][\A v \in Viewers :
            vcam[v] # 0 /\ vpc[v] = "check" /\ ~camera_states[vcam[v]] =>
                vpc'[v] = "check" /\ vframe'[v] = vframe[v]]_vars
    /\ \A v \in Viewers, c \in Exercised :
            [](vcam[v] = c => ~camera_states[c]) => [](vpc[v] # "yield")
    /\ \A c \in Exercised :
            [](cpc[c] = "read" => source[c] = "down")
                => [](\A v \in Viewers : vcam[v] = c => vpc[v] # "yield")

\* a session waits in get() on an enabled camera that never published a
\* frame: the capture loop has just lost its connection to a failed read
\* and the source is down
C12_Witness ==
    \E v \in Viewers :
        /\ vcam[v] # 0
        /\ vpc[v] = "get"
        /\ camera_states[vcam[v]]
        /\ source[vcam[v]] = "down"
        /\ lastPublished[vcam[v]] = 0
        /\ cpc[vcam[v]] = "check"
        /\ cap[vcam[v]] = "None"
        /\ frame_queues[vcam[v]] = <<>>

\* what capture_camera(c) owns: its connection, its buffer, its position,
\* its queue and the number of its last frame
CameraPart(c) == <<cap[c], frame[c], cpc[c], frame_queues[c], lastPublished[c]>>

\* C13: a step that changes a desired state is a step of the webhook; a
\* step of a capture loop or of a viewer session changes no desired state;
\* a step of the capture loop of camera c changes nothing of another
\* camera's connection, buffer, position or queue, and nothing of a viewer.
C13_OnlyGatewayWritesFlags ==
    [][/\ camera_states' # camera_states => Gateway
       /\ \A c \in CAMERA_URLS :
            Capture(c) =>
                /\ camera_states' = camera_states
                /\ \A d \in CAMERA_URLS \ {c} : CameraPart(d)' = CameraPart(d)
                /\ viewerVars' = viewerVars
       /\ \A v \in Viewers :
            Viewer(v) =>
                /\ camera_states' = camera_states
                /\ \A c \in CAMERA_URLS :
                      <<cap[c], frame[c], cpc[c], lastPublished[c]>>'
                          = <<cap[c], frame[c], cpc[c], lastPublished[c]>>]_vars

\* camera 1 is enabled and has published a frame that a session emitted,
\* while the other cameras are still disabled, unconnected and empty and
\* the loop of camera 2 is in its sleep
C13_Witness ==
    /\ camera_states[1] /\ lastPublished[1] >= 1
    /\ \E v \in Viewers : vcam[v] = 1 /\ vframe[v] >= 1 /\ vpc[v] = "check"
    /\ \A d \in CAMERA_URLS \ {1} :
          ~camera_states[d] /\ cap[d] = "None" /\ frame_queues[d] = <<>>
    /\ cpc[2] = "idle"

\* C14: a capture loop opens a connection (the step from the connect
\* test to the read in which it holds no open connection) only in a state
\* in which its camera is enabled.
C14_NoConnectWhileDisabled ==
    [][\A c \in CAMERA_URLS :
          cpc[c] = "connect" /\ cpc'[c] = "read" /\ cap[c] # "open"
              => camera_states[c]]_vars

\* C15: a session takes a frame from the queue, and emits the chunk of a
\* frame it took, only in a state in which its camera is enabled.
C15_NoTakeWhileDisabled ==
    [][\A v \in Viewers :
          /\ vpc[v] = "get" /\ vpc'[v] = "yield" => camera_states[vcam[v]]
          /\ vpc[v] = "yield" /\ vpc'[v] = "check" => camera_states[vcam[v]]]_vars

\* C16, a consequence of it that needs no history: no session takes a
\* frame of an enabled camera whose capture loop is still in the sleep it
\* entered on finding the camera disabled.  (In such a state the frame in
\* the queue was captured before the loop saw the camera disabled, and the
\* camera was opened again after that.)
C16_NoStaleFrameAfterReopen ==
    [][\A v \in Viewers :
          vpc[v] = "get" /\ vpc'[v] = "yield" /\ camera_states[vcam[v]]
              => cpc[vcam[v]] # "idle"]_vars

\* C17: a failed read releases the connection and marks it absent, leaves
\* the queue as it was and returns to the top of the loop; a read on a
\* connection that is not open always ends that way; the loop then opens a
\* connection before it reads again, so no read is issued with the
\* connection absent.
C17_FailedReadReconnects ==
    /\ [](\A c \in CAMERA_URLS : cpc[c] = "read" => cap[c] # "None")
    /\ [][\A c \in CAMERA_URLS :
            /\ ReadFail(c) \/ (cpc[c] = "read" /\ cap[c] # "open" /\ cpc'[c] # "read") =>
                  /\ cap'[c] = "None"
                  /\ cpc'[c] = "check"
                  /\ frame_queues'[c] = frame_queues[c]
            /\ cpc[c] = "connect" /\ cap[c] = "None" /\ cpc'[c] = "read" =>
                  cap'[c] \in {"open", "closed"}]_vars

\* a loop is back at the top after a failed read: the connection is absent,
\* the source is down, and the frame it published before is still queued
C17_Witness ==
    \E c \in CAMERA_URLS :
        /\ cpc[c] = "check"
        /\ cap[c] = "None"
        /\ source[c] = "down"
        /\ camera_states[c]
        /\ frame_queues[c] # <<>>

\* C18: a take removes the frame from the queue and hands it to the one
\* session that took it; a session emits only a frame it has just taken;
\* so of the frames whose number is unique (those before the MaxFrames-th)
\* no two sessions of a camera ever hold the same one, and none is both
\* held by a session and still in the queue.
C18_FrameDeliveredAtMostOnce ==
    /\ [][\A v \in Viewers :
            /\ vpc[v] = "get" /\ vpc'[v] = "yield" =>
                  /\ frame_queues'[vcam[v]] = <<>>
                  /\ \A w \in Viewers \ {v} : vpc'[w] = vpc[w] /\ vframe'[w] = vframe[w]
            /\ vpc[v] # "yield" /\ vpc'[v] = "yield" =>
                  /\ vpc[v] = "get"
                  /\ frame_queues[vcam[v]] # <<>>
                  /\ vframe'[v] = Head(frame_queues[vcam[v]])
            /\ vpc[v] = "yield" /\ vpc'[v] # "yield" => vpc'[v] = "check"]_vars
    /\ [](\A v \in Viewers, f \in 1..(MaxFrames - 1) :
            vframe[v] = f =>
                /\ frame_queues[vcam[v]] # <<f>>
                /\ \A w \in Viewers \ {v} : vcam[w] = vcam[v] => vframe[w] # f)

\* two sessions of one camera: one emitted frame 1 and is back at its flag
\* test, the other has taken frame 2 and is about to emit it
C18_Witness ==
    \E v, w \in Viewers :
        /\ v # w /\ vcam[v] # 0 /\ vcam[w] = vcam[v]
        /\ vframe[v] = 1 /\ vpc[v] = "check"
        /\ vframe[w] = 2 /\ vpc[w] = "yield"
        /\ frame_queues[vcam[v]] = <<>>

\* C19: every camera of the registry has its capture loop, which never
\* ends, and its single connection slot; the connection a loop holds
\* changes to a new one only at the connect step of that loop and only
\* when the loop holds none or one that is not open.
C19_OneLoopOneConnection ==
    /\ [](/\ DOMAIN cpc = CAMERA_URLS /\ DOMAIN cap = CAMERA_URLS
          /\ \A c \in CAMERA_URLS :
                /\ cpc[c] \in {"check", "idle", "connect", "read", "clear", "put"}
                /\ cap[c] \in {"None", "open", "closed"})
    /\ [][\A c \in CAMERA_URLS :
            /\ cap'[c] # cap[c] /\ cap'[c] # "None" =>
                  cpc[c] = "connect" /\ cap[c] # "open"
            /\ cpc[c] = "connect" /\ cap[c] = "open" /\ cpc'[c] # "connect" =>
                  cap'[c] = "open"]_vars

\* a loop that has published is about to read on an open connection while
\* the source is down and the camera enabled
C19_Witness ==
    \E c \in CAMERA_URLS :
        /\ cpc[c] = "read"
        /\ cap[c] = "open"
        /\ source[c] = "down"
        /\ camera_states[c]
        /\ lastPublished[c] >= 1

\* a request whose processing raises: a body that is no JSON object, an
\* IntentRequest without an intent name, an open or close intent with a
\* slot value that is no number
Raises(r) ==
    \/ r.type = NotAnObject
    \/ r.type = "IntentRequest" /\ r.name = Missing
    \/ IsCameraIntent(r) /\ ~NumericSlots(r)

\* C11: the handler always returns an HTTP 200 response, and every request
\* whose processing raises an exception is answered with the generic
\* apology speech.
C11_ExceptionsBecomeApology ==
    [][/\ response'.status = 200
       /\ response'.kind \in {"speech", "empty"}
       /\ Raises(request') =>
             /\ response'.kind = "speech"
             /\ response'.text = "There was an error processing your request."
             /\ response'.shouldEndSession = TRUE]_vars

\* a close intent with a non-numeric CameraNumber got the apology
C11_Witness ==
    /\ request.name = "CloseCameraIntent"
    /\ request.CameraNumber = "x"
    /\ response.status = 200
    /\ response.text = "There was an error processing your request."
    /\ \E c \in CAMERA_URLS : camera_states[c]

\* C20: a request answered with the apology changes no desired state; in
\* particular an open or close intent with a slot that fails to parse
\* switches none of the cameras its other slots name.
C20_FailingRequestChangesNothing ==
    [][response'.text = "There was an error processing your request."
          => camera_states' = camera_states]_vars

\* an open intent naming camera 1 and then a non-numeric camera got the
\* apology and camera 1 is still off, while another camera is on
C20_Witness ==
    /\ request.name = "OpenCameraIntent"
    /\ request.AllCameras = "" /\ request.CameraNumber = ""
    /\ request.FirstCamera = "1"
    /\ request.SecondCamera = "x"
    /\ response.text = "There was an error processing your request."
    /\ ~camera_states[1]
    /\ \E c \in CAMERA_URLS : camera_states[c]

====
